---- MODULE Spec2Model ----
(***************************************************************************)
(* Model of traffic_management.py: the step loop of run_simulation, which   *)
(* counts vehicles per approach from the induction loops, derives the       *)
(* congested approaches and re-times phases 0, 2 and 4 of the signal's      *)
(* program through TraCI.  The simulator (SUMO behind traci) is the         *)
(* environment: its replies are nondeterministic choices from small sets.   *)
(***************************************************************************)
EXTENDS Integers, Sequences, FiniteSets, TLC

(* ------------------------------ bounds --------------------------------- *)

\* Largest number of vehicles the simulator still expects at start; every
\* simulation step retires at least one, so it also bounds the iterations.
MaxExpected == 2

\* Largest number of detectors that report a non-zero count in one step.
MaxBusyLanes == 2

\* Non-zero counts a detector can report in one step.
LaneCountValues == {3, 5, 8}

\* Values of getNextSwitch() - getTime() the simulator can report.
Deltas == {1, 2}

(* --------------------------- configuration ----------------------------- *)

\* sensor_ids: the approaches, in the dictionary's insertion order.
sensor_ids == <<"north", "south", "east", "west">>

Approaches == {sensor_ids[i] : i \in 1..Len(sensor_ids)}

\* The characters of an approach name (strings are character sequences).
Chars(a) ==
    CASE a = "north" -> <<"n", "o", "r", "t", "h">>
      [] a = "south" -> <<"s", "o", "u", "t", "h">>
      [] a = "east"  -> <<"e", "a", "s", "t">>
      [] a = "west"  -> <<"w", "e", "s", "t">>

congestion_threshold == 5

adjustment_step == 5

\* The literal 50 of lines 83, 93, 102.
max_green_duration == 50

\* The literal 13 of lines 85, 87, 94, 96, 103, 105.
min_green_duration == 13

(* ------------------------------ network -------------------------------- *)

\* Lane identifiers of the network read by net.readNet, as character
\* sequences.
LaneNorth     == <<"n", "o", "r", "t", "h", "_", "0">>
LaneSouth     == <<"s", "o", "u", "t", "h", "_", "0">>
LaneEast      == <<"e", "a", "s", "t", "_", "0">>
LaneWest      == <<"w", "e", "s", "t", "_", "0">>
LaneNorthwest == <<"n", "o", "r", "t", "h", "w", "e", "s", "t", "_", "0">>
LaneOsm       == <<"7", "5", "4", "5", "9", "8", "1", "6", "5", "#", "2", "_", "0">>
LaneInternal  == <<":", "n", "o", "r", "t", "h", "_", "0", "_", "0">>

\* net_obj.getEdges(): each edge with its function and its lanes.
Edges ==
    << [function |-> "normal",   lanes |-> <<LaneNorth>>],
       [function |-> "internal", lanes |-> <<LaneInternal>>],
       [function |-> "normal",   lanes |-> <<LaneSouth>>],
       [function |-> "normal",   lanes |-> <<LaneEast, LaneNorthwest>>],
       [function |-> "normal",   lanes |-> <<LaneWest>>],
       [function |-> "normal",   lanes |-> <<LaneOsm>>] >>

AllLanes == UNION {{Edges[e].lanes[l] : l \in 1..Len(Edges[e].lanes)} : e \in 1..Len(Edges)}

\* Lanes that carry a detector: those of non-internal edges (lines 38, 67).
InstrumentedLanes ==
    UNION {{Edges[e].lanes[l] : l \in 1..Len(Edges[e].lanes)} :
           e \in {x \in 1..Len(Edges) : Edges[x].function # "internal"}}

\* Python's `approach in lane_id`: substring containment.
Contains(a, s) ==
    \E i \in 1..(Len(s) - Len(a) + 1) : SubSeq(s, i, i + Len(a) - 1) = a

(* --------------------------- counting (63-74) -------------------------- *)

\* Variant of CountLane without the break of line 74: every approach whose
\* name the lane id contains receives the count.
RECURSIVE CountLaneNoBreak(_, _, _, _)
CountLaneNoBreak(vc, lane, n, i) ==
    IF i > Len(sensor_ids) THEN vc
    ELSE IF Contains(Chars(sensor_ids[i]), lane)
         THEN CountLaneNoBreak([vc EXCEPT ![sensor_ids[i]] = @ + n], lane, n, i + 1)
         ELSE CountLaneNoBreak(vc, lane, n, i + 1)

\* Lines 71-74: the first approach of sensor_ids contained in the lane id
\* receives the lane's count, then the loop breaks.
RECURSIVE CountLane(_, _, _, _)
CountLane(vc, lane, n, i) ==
    IF i > Len(sensor_ids) THEN vc
    ELSE IF Contains(Chars(sensor_ids[i]), lane)
         THEN [vc EXCEPT ![sensor_ids[i]] = @ + n]
         ELSE CountLane(vc, lane, n, i + 1)

\* Lines 68-74 for the lanes of one edge.
RECURSIVE CountLanes(_, _, _, _)
CountLanes(vc, lanes, counts, l) ==
    IF l > Len(lanes) THEN vc
    ELSE CountLanes(CountLane(vc, lanes[l], counts[lanes[l]], 1), lanes, counts, l + 1)

\* Lines 66-74 over the edges.
RECURSIVE CountEdges(_, _, _)
CountEdges(vc, counts, e) ==
    IF e > Len(Edges) THEN vc
    ELSE IF Edges[e].function # "internal"
         THEN CountEdges(CountLanes(vc, Edges[e].lanes, counts, 1), counts, e + 1)
         ELSE CountEdges(vc, counts, e + 1)

\* Lines 63-74: the vehicle count snapshot of one step.
CountVehicles(counts) == CountEdges([a \in Approaches |-> 0], counts, 1)

\* Variant of Congested that compares with >= instead of >.
CongestedAtThreshold(vc) ==
    SelectSeq(sensor_ids, LAMBDA a : vc[a] >= congestion_threshold)

\* Line 76: the approaches whose count exceeds the threshold, in order.
Congested(vc) == SelectSeq(sensor_ids, LAMBDA a : vc[a] > congestion_threshold)

InList(a, list) == \E i \in 1..Len(list) : list[i] = a

(* ------------------------ adjustments (80-106) ------------------------- *)

Min(a, b) == IF a < b THEN a ELSE b
Max(a, b) == IF a > b THEN a ELSE b

Grow(phases, i) ==
    [phases EXCEPT ![i].duration = Min(@ + adjustment_step, max_green_duration)]

\* Variant of Shrink without the floor.
ShrinkNoFloor(phases, i) ==
    [phases EXCEPT ![i].duration = @ - adjustment_step]

Shrink(phases, i) ==
    [phases EXCEPT ![i].duration = Max(@ - adjustment_step, min_green_duration)]

\* Phase index k of the code is position k + 1 of the sequence.
ShrinkIf(phases, i) == IF Len(phases) >= i THEN Shrink(phases, i) ELSE phases
GrowIf(phases, i)   == IF Len(phases) >= i THEN Grow(phases, i) ELSE phases

\* Variant of AdjustNS that shrinks phase 3 instead of phase 2.
AdjustNSWrongIndex(phases) == ShrinkIf(ShrinkIf(Grow(phases, 1), 4), 5)

\* Lines 83-87.
AdjustNS(phases) == ShrinkIf(ShrinkIf(Grow(phases, 1), 3), 5)

\* Lines 92-96.
AdjustEW(phases) == ShrinkIf(Shrink(GrowIf(phases, 3), 1), 5)

\* Variant of AdjustAny without line 103: phase 0 is not shrunk.
AdjustAnyKeepsPhase0(phases) == ShrinkIf(GrowIf(phases, 5), 3)

\* Variant of AdjustAny without lines 101-102: phase 4 is not grown.
AdjustAnyNoGrow(phases) == ShrinkIf(Shrink(phases, 1), 3)

\* Lines 101-105.
AdjustAny(phases) == ShrinkIf(Shrink(GrowIf(phases, 5), 1), 3)

\* Lines 81, 90, 99: the conditions of the three branches.
CondNS(c)  == InList("north", c) \/ InList("south", c)
CondEW(c)  == InList("east", c) \/ InList("west", c)
CondAny(c) == \E i \in 1..4 : InList(<<"east", "west", "north", "south">>[i], c)

\* Variant of Trigger that fires one second earlier.
TriggerEarly(d) == d <= 2

\* Lines 82, 91, 100.
Trigger(d) == d <= 1

\* The durations of a program's phases, as line 109 prints them.
Durations(phases) == [i \in 1..Len(phases) |-> phases[i].duration]

(* ------------------------------- state --------------------------------- *)

VARIABLES
    pc,                   \* position in run_simulation
    conn,                 \* the TraCI connection: "none", "open", "closed"
    closes,               \* number of traci.close() calls made
    expected,             \* simulator: getMinExpectedNumber()
    laneCount,            \* simulator: last-step vehicle number per detector
    delta,                \* simulator: getNextSwitch() - getTime() in this step
    phaseIdx,             \* simulator: position of the active phase in this step
    simPlan,              \* simulator: phases of the signal's program
    vehicle_counts,       \* local of the loop body
    congested_approaches, \* local of the loop body
    current_state,        \* local of the loop body
    current_logic,        \* local of the loop body: its phases
    prePlan,              \* history: simPlan as read at line 78
    delta0,               \* history: delta right after simulationStep
    checks,               \* history: outcomes of the trigger checks of the step
    sent,                 \* history: plans passed to setProgramLogic in the step
    tripinfo_file,        \* analyze_tripinfo: what the path holds
    data,                 \* analyze_tripinfo: the converted trip records
    output,               \* analyze_tripinfo: what has been printed
    raisedError,          \* analyze_tripinfo: the exception that left it
    laneIdx,              \* create_additional_file: position in the lanes
    detector,             \* create_additional_file: the detector last written
    detectorCount         \* create_additional_file: detectors written

tripVars == <<tripinfo_file, data, output, raisedError>>
detectorVars == <<laneIdx, detector, detectorCount>>

vars == <<pc, conn, closes, expected, laneCount, delta, phaseIdx, simPlan,
          vehicle_counts, congested_approaches, current_state, current_logic,
          prePlan, delta0, checks, sent, tripVars, detectorVars>>

simVars == <<expected, laneCount, delta, phaseIdx, simPlan>>
localVars == <<vehicle_counts, congested_approaches, current_state, current_logic>>
histVars == <<prePlan, delta0, checks, sent>>

Phase(d, s) == [duration |-> d, state |-> s]

\* Programs the signal can start with.
InitialPlans ==
    { << Phase(12, <<"G", "r">>), Phase(6, <<"y", "r">>),
         Phase(12, <<"r", "G">>), Phase(6, <<"r", "y">>) >>,
      << Phase(20, <<"G", "r", "r">>), Phase(3, <<"y", "r", "r">>),
         Phase(45, <<"r", "G", "r">>), Phase(3, <<"r", "y", "r">>),
         Phase(44, <<"r", "r", "G">>), Phase(3, <<"r", "r", "y">>) >>,
      << Phase(6, <<"r", "y">>), Phase(30, <<"G", "r">>),
         Phase(6, <<"y", "r">>), Phase(30, <<"r", "G">>) >>,
      << Phase(50, <<"G", "r", "r">>), Phase(3, <<"y", "r", "r">>),
         Phase(8, <<"r", "G", "r">>), Phase(3, <<"r", "y", "r">>),
         Phase(3, <<"r", "r", "G">>) >>,
      << Phase(60, <<"G">>), Phase(3, <<"y">>) >>,
      << Phase(13, <<"G">>) >> }

\* Detector readings of one step: at most MaxBusyLanes detectors report the
\* same non-zero count, the others report 0.
Readings ==
    { [l \in AllLanes |-> IF l \in busy THEN v ELSE 0] :
        busy \in {b \in SUBSET AllLanes : Cardinality(b) <= MaxBusyLanes},
        v \in LaneCountValues }

\* analyze_tripinfo has not been called.
TripIdle ==
    /\ tripinfo_file = [kind |-> "unread", trips |-> <<>>]
    /\ data = <<>>
    /\ output = <<>>
    /\ raisedError = "none"

\* create_additional_file is not being looked at.
DetectorIdle ==
    /\ laneIdx = 0
    /\ detector = [lane |-> <<>>, length |-> 0, position |-> 0]
    /\ detectorCount = 0

Init ==
    /\ TripIdle
    /\ DetectorIdle
    /\ pc = "start"
    /\ conn = "none"
    /\ closes = 0
    /\ expected \in 0..MaxExpected
    /\ laneCount = [l \in AllLanes |-> 0]
    /\ delta = 0
    /\ simPlan \in InitialPlans
    /\ phaseIdx = 1
    /\ vehicle_counts = [a \in Approaches |-> 0]
    /\ congested_approaches = <<>>
    /\ current_state = <<>>
    /\ current_logic = <<>>
    /\ prePlan = <<>>
    /\ delta0 = 0
    /\ checks = <<>>
    /\ sent = <<>>

(* ------------------------------ actions -------------------------------- *)

\* Line 54: traci.start.
Start ==
    /\ pc = "start"
    /\ conn' = "open"
    /\ pc' = "check"
    /\ UNCHANGED <<tripVars, detectorVars, closes, simVars, localVars, histVars>>

\* Variant of LoopCheck that compares with >= instead of >.
LoopCheckNonNegative ==
    /\ pc = "check"
    /\ pc' = IF expected >= 0 THEN "step" ELSE "close"
    /\ UNCHANGED <<tripVars, detectorVars, conn, closes, simVars, localVars, histVars>>

\* Line 61: the loop condition.
LoopCheck ==
    /\ pc = "check"
    /\ pc' = IF expected > 0 THEN "step" ELSE "close"
    /\ UNCHANGED <<tripVars, detectorVars, conn, closes, simVars, localVars, histVars>>

\* Lines 62-78: advance the simulator one step, count the vehicles per
\* approach, derive the congested approaches and read the signal.
SimulationStep ==
    /\ pc = "step"
    /\ \E r \in Readings, d \in Deltas, p \in 1..Len(simPlan), e \in 0..(expected - 1) :
          /\ laneCount' = r
          /\ delta' = d
          /\ delta0' = d
          /\ phaseIdx' = p
          /\ expected' = e
    /\ vehicle_counts' = CountVehicles(laneCount')
    /\ congested_approaches' = Congested(vehicle_counts')
    /\ current_state' = simPlan[phaseIdx'].state
    /\ current_logic' = simPlan
    /\ prePlan' = simPlan
    /\ checks' = <<>>
    /\ sent' = <<>>
    /\ pc' = "ns"
    /\ UNCHANGED <<tripVars, detectorVars, conn, closes, simPlan>>

\* One branch of lines 80-106, with the value of its condition and the phases
\* as it would adjust them: when the condition holds the trigger is checked;
\* when the trigger holds the phases are adjusted and the program is
\* committed, after which the simulator may report another next switch.
Branch(here, next, cond, adjusted) ==
    /\ pc = here
    /\ pc' = next
    /\ IF Len(congested_approaches) > 0 /\ cond
       THEN /\ checks' = Append(checks, Trigger(delta))
            /\ IF Trigger(delta)
               THEN /\ current_logic' = adjusted
                    /\ simPlan' = current_logic'
                    /\ sent' = Append(sent, Durations(current_logic'))
                    /\ delta' \in Deltas
               ELSE UNCHANGED <<current_logic, simPlan, sent, delta>>
       ELSE UNCHANGED <<checks, current_logic, simPlan, sent, delta>>
    /\ UNCHANGED <<tripVars, detectorVars, conn, closes, expected, laneCount, phaseIdx, vehicle_counts,
                   congested_approaches, current_state, prePlan, delta0>>

\* Lines 81-88.
BranchNS ==
    Branch("ns", "ew", CondNS(congested_approaches), AdjustNS(current_logic))

\* Lines 90-97.
BranchEW ==
    Branch("ew", "any", CondEW(congested_approaches), AdjustEW(current_logic))

\* Lines 99-106.
BranchAny ==
    Branch("any", "print", CondAny(congested_approaches), AdjustAny(current_logic))

\* Lines 109-110: report and pace.  The iteration ends here: the locals of
\* the loop body and the simulator's per-step replies are rebound by lines
\* 62-78 before anything reads them again, so they are forgotten.
PrintStep ==
    /\ pc = "print"
    /\ pc' = "check"
    /\ laneCount' = [l \in AllLanes |-> 0]
    /\ delta' = 0
    /\ delta0' = 0
    /\ phaseIdx' = 1
    /\ vehicle_counts' = [a \in Approaches |-> 0]
    /\ congested_approaches' = <<>>
    /\ current_state' = <<>>
    /\ current_logic' = <<>>
    /\ prePlan' = <<>>
    /\ checks' = <<>>
    /\ sent' = <<>>
    /\ UNCHANGED <<tripVars, detectorVars, conn, closes, expected, simPlan>>

\* Line 112: traci.close.
Close ==
    /\ pc = "close"
    /\ conn' = "closed"
    /\ closes' = closes + 1
    /\ pc' = "done"
    /\ UNCHANGED <<tripVars, detectorVars, simVars, localVars, histVars>>

\* Whether the statement at pc calls the simulator.
CallsSimulator ==
    \/ pc \in {"check", "step", "print"}
    \/ /\ Len(congested_approaches) > 0
       /\ \/ pc = "ns" /\ CondNS(congested_approaches)
          \/ pc = "ew" /\ CondEW(congested_approaches)
          \/ pc = "any" /\ CondAny(congested_approaches)

\* A simulator call raises a fatal error: nothing in run_simulation catches
\* it, so the function is left at once.
Raise ==
    /\ CallsSimulator
    /\ pc' = "raised"
    /\ UNCHANGED <<tripVars, detectorVars, conn, closes, simVars, localVars, histVars>>

Next ==
    \/ Start
    \/ LoopCheck
    \/ SimulationStep
    \/ BranchNS
    \/ BranchEW
    \/ BranchAny
    \/ PrintStep
    \/ Close
    \/ Raise

Spec == Init /\ [][Next]_vars

\* The steps of a run in which no simulator call fails.
NextNoFailure ==
    \/ Start
    \/ LoopCheck
    \/ SimulationStep
    \/ BranchNS
    \/ BranchEW
    \/ BranchAny
    \/ PrintStep
    \/ Close

\* Termination does not depend on the program's contents: the fair runs
\* start from the programs of at most four phases.
LiveInit == Init /\ Len(simPlan) <= 4

\* Runs without failing calls: the program is sequential and every call
\* returns, so it keeps taking its next step while it has one.
LiveSpec == LiveInit /\ [][NextNoFailure]_vars /\ WF_vars(NextNoFailure)

(* ---------------------- analyze_tripinfo (114-141) --------------------- *)

\* Largest number of tripinfo records in a trip log.
MaxTrips == 2

\* The attributes read by lines 123-127, in the order they are converted.
TripFields == <<"depart", "arrival", "duration", "waitingTime", "timeLoss">>

\* What tripinfo.get returns: None for a missing attribute, else its text.
Absent == [present |-> FALSE, text |-> <<>>]
Text(t) == [present |-> TRUE, text |-> t]

Digits == <<"0", "1", "2", "3", "4", "5", "6", "7", "8", "9">>

IsDigit(c) == \E d \in 1..10 : Digits[d] = c

DigitValue(c) == (CHOOSE d \in 1..10 : Digits[d] = c) - 1

\* The texts float() accepts among those of the model: non-empty digit
\* strings.
IsNumeric(t) == Len(t) > 0 /\ \A i \in 1..Len(t) : IsDigit(t[i])

RECURSIVE ParseNumber(_)
ParseNumber(t) ==
    IF Len(t) = 0 THEN 0
    ELSE 10 * ParseNumber(SubSeq(t, 1, Len(t) - 1)) + DigitValue(t[Len(t)])

\* float(v): TypeError for None, ValueError for a text that is no number.
Float(v) ==
    IF ~v.present THEN [raises |-> "TypeError", value |-> 0]
    ELSE IF IsNumeric(v.text) THEN [raises |-> "none", value |-> ParseNumber(v.text)]
    ELSE [raises |-> "ValueError", value |-> 0]

\* Lines 121-128 for one record: the first conversion that raises ends it.
RECURSIVE ConvertFields(_, _, _)
ConvertFields(trip, f, acc) ==
    IF f > Len(TripFields) THEN [raises |-> "none", row |-> acc]
    ELSE LET r == Float(trip[TripFields[f]])
         IN  IF r.raises # "none" THEN [raises |-> r.raises, row |-> acc]
             ELSE ConvertFields(trip, f + 1, acc @@ (TripFields[f] :> r.value))

\* Lines 119-129: the loop over the tripinfo records.
RECURSIVE ConvertTrips(_, _, _)
ConvertTrips(trips, i, acc) ==
    IF i > Len(trips) THEN [raises |-> "none", data |-> acc]
    ELSE LET r == ConvertFields(trips[i], 1, <<>>)
         IN  IF r.raises # "none" THEN [raises |-> r.raises, data |-> acc]
             ELSE ConvertTrips(trips, i + 1, Append(acc, r.row))

RECURSIVE SumColumn(_, _)
SumColumn(rows, f) ==
    IF Len(rows) = 0 THEN 0
    ELSE rows[1][f] + SumColumn(Tail(rows), f)

\* A printed line; a mean is kept as the column's sum and its count.
Line(t, s, n) == [text |-> t, sum |-> s, count |-> n]

\* Lines 133-136.
Statistics(rows) ==
    << Line("Average trip duration:", SumColumn(rows, "duration"), Len(rows)),
       Line("Average waiting time:", SumColumn(rows, "waitingTime"), Len(rows)),
       Line("Average time loss:", SumColumn(rows, "timeLoss"), Len(rows)),
       Line("describe", 0, Len(rows)) >>

\* Line 139 and line 141.
NotFoundMessage == Line("Error: File not found.", 0, 0)
ParseErrorMessage == Line("Error: Could not parse.", 0, 0)

\* A record whose attributes are all numbers, and the records that differ
\* from it in one attribute that is missing or is no number.
GoodTrip == [f \in {TripFields[i] : i \in 1..Len(TripFields)} |-> Text(<<"1", "2">>)]

TripRecords ==
    {GoodTrip} \cup
    { [GoodTrip EXCEPT ![TripFields[i]] = v] :
        i \in 1..Len(TripFields), v \in {Absent, Text(<<"a", "b", "c">>)} }

\* What the path given to analyze_tripinfo can hold.
TripFiles ==
    { [kind |-> "missing", trips |-> <<>>], [kind |-> "unparseable", trips |-> <<>>] }
    \cup
    { [kind |-> "xml", trips |-> t] : t \in UNION {[1..n -> TripRecords] : n \in 0..MaxTrips} }

\* analyze_tripinfo is called on some trip log.
TripInit ==
    /\ pc = "parse"
    /\ tripinfo_file \in TripFiles
    /\ data = <<>>
    /\ output = <<>>
    /\ raisedError = "none"
    /\ DetectorIdle
    /\ conn = "none"
    /\ closes = 0
    /\ expected = 0
    /\ laneCount = [l \in AllLanes |-> 0]
    /\ delta = 0
    /\ simPlan = <<>>
    /\ phaseIdx = 1
    /\ vehicle_counts = [a \in Approaches |-> 0]
    /\ congested_approaches = <<>>
    /\ current_state = <<>>
    /\ current_logic = <<>>
    /\ prePlan = <<>>
    /\ delta0 = 0
    /\ checks = <<>>
    /\ sent = <<>>

runVars == <<conn, closes, simVars, localVars, histVars>>

\* Variant of Parse without the handler of lines 138-139.
ParseNoNotFoundHandler ==
    /\ pc = "parse"
    /\ CASE tripinfo_file.kind = "missing" ->
              /\ raisedError' = "FileNotFoundError"
              /\ pc' = "escaped"
              /\ UNCHANGED output
         [] tripinfo_file.kind = "unparseable" ->
              /\ output' = Append(output, ParseErrorMessage)
              /\ pc' = "returned"
              /\ UNCHANGED raisedError
         [] OTHER ->
              /\ pc' = "convert"
              /\ UNCHANGED <<output, raisedError>>
    /\ UNCHANGED <<tripinfo_file, data, detectorVars, runVars>>

\* Lines 116-117 with the handlers of lines 138-141: a missing file and an
\* unparseable file are reported and the function returns.
Parse ==
    /\ pc = "parse"
    /\ CASE tripinfo_file.kind = "missing" ->
              /\ output' = Append(output, NotFoundMessage)
              /\ pc' = "returned"
         [] tripinfo_file.kind = "unparseable" ->
              /\ output' = Append(output, ParseErrorMessage)
              /\ pc' = "returned"
         [] OTHER ->
              /\ pc' = "convert"
              /\ UNCHANGED output
    /\ UNCHANGED <<tripinfo_file, data, raisedError, detectorVars, runVars>>

\* Lines 119-129: a TypeError or ValueError of float() matches neither except
\* clause and leaves the function.
Convert ==
    /\ pc = "convert"
    /\ LET r == ConvertTrips(tripinfo_file.trips, 1, <<>>)
       IN  /\ data' = r.data
           /\ raisedError' = r.raises
           /\ pc' = IF r.raises = "none" THEN "stats" ELSE "escaped"
    /\ UNCHANGED <<tripinfo_file, output, detectorVars, runVars>>

\* Lines 131-136: a frame built from no rows has no columns, so
\* df['duration'] raises KeyError, which no except clause matches.
Stats ==
    /\ pc = "stats"
    /\ IF Len(data) = 0
       THEN /\ raisedError' = "KeyError"
            /\ pc' = "escaped"
            /\ UNCHANGED output
       ELSE /\ output' = output \o Statistics(data)
            /\ pc' = "returned"
            /\ UNCHANGED raisedError
    /\ UNCHANGED <<tripinfo_file, data, detectorVars, runVars>>

TripNext ==
    \/ Parse
    \/ Convert
    \/ Stats

TripSpec == TripInit /\ [][TripNext]_vars

(* -------------------- create_additional_file (33-47) ------------------- *)

\* Lengths and positions are in hundredths of a metre.

\* Largest lane length.
MaxLaneLength == 520

\* The 5 of line 42.
DetectorOffset == 500

\* The 0.1 of line 44.
FallbackPosition == 10

\* Lines 42-44.
DetectorPosition(length) ==
    LET position == length - DetectorOffset
    IN  IF position < 0 THEN FallbackPosition ELSE position

RECURSIVE Flatten(_, _)
Flatten(e, acc) ==
    IF e > Len(Edges) THEN acc
    ELSE Flatten(e + 1,
                 acc \o [l \in 1..Len(Edges[e].lanes) |->
                            [lane |-> Edges[e].lanes[l], function |-> Edges[e].function]])

\* The lanes in the order lines 37-39 visit them, each with its edge's
\* function.
LaneList == Flatten(1, <<>>)

\* create_additional_file is at its first lane.
DetectorInit ==
    /\ pc = "lane"
    /\ laneIdx = 1
    /\ detector = [lane |-> <<>>, length |-> 0, position |-> 0]
    /\ detectorCount = 0
    /\ TripIdle
    /\ conn = "none"
    /\ closes = 0
    /\ expected = 0
    /\ laneCount = [l \in AllLanes |-> 0]
    /\ delta = 0
    /\ simPlan = <<>>
    /\ phaseIdx = 1
    /\ vehicle_counts = [a \in Approaches |-> 0]
    /\ congested_approaches = <<>>
    /\ current_state = <<>>
    /\ current_logic = <<>>
    /\ prePlan = <<>>
    /\ delta0 = 0
    /\ checks = <<>>
    /\ sent = <<>>

\* Line 38: the lanes of an internal edge get no detector.
SkipInternal ==
    /\ pc = "lane"
    /\ laneIdx <= Len(LaneList)
    /\ LaneList[laneIdx].function = "internal"
    /\ laneIdx' = laneIdx + 1
    /\ UNCHANGED <<pc, detector, detectorCount, tripVars, runVars>>

\* Lines 39-46: a detector is written for the lane, whatever its length.
WriteDetector ==
    /\ pc = "lane"
    /\ laneIdx <= Len(LaneList)
    /\ LaneList[laneIdx].function # "internal"
    /\ \E length \in 0..MaxLaneLength :
          detector' = [lane |-> LaneList[laneIdx].lane, length |-> length,
                       position |-> DetectorPosition(length)]
    /\ detectorCount' = detectorCount + 1
    /\ laneIdx' = laneIdx + 1
    /\ UNCHANGED <<pc, tripVars, runVars>>

\* Line 47: the file is complete.
CloseAdditional ==
    /\ pc = "lane"
    /\ laneIdx > Len(LaneList)
    /\ pc' = "file_written"
    /\ UNCHANGED <<detectorVars, tripVars, runVars>>

DetectorNext ==
    \/ SkipInternal
    \/ WriteDetector
    \/ CloseAdditional

DetectorSpec == DetectorInit /\ [][DetectorNext]_vars

(* ------------------------------ claims --------------------------------- *)

\* The loop body has read the signal (line 78) and not yet ended.
InStep == pc \in {"ns", "ew", "any", "print"}

\* The three branches of the step have run.
StepDone == pc = "print"

\* A phase is green when its state string contains 'G'.
IsGreen(phase) == \E i \in 1..Len(phase.state) : phase.state[i] = "G"

InRange(d) == min_green_duration <= d /\ d <= max_green_duration

\* The Congested Set as the approaches whose snapshot total exceeds 5.
CongestedSetEmpty == \A a \in Approaches : vehicle_counts[a] <= congestion_threshold

\* The trigger condition of the claims: nextSwitch - time <= 1 as the step
\* began.
AtBoundary == delta0 <= 1

\* The trigger condition held when the step began and at every check of it.
AllTriggered ==
    /\ AtBoundary
    /\ Len(checks) > 0
    /\ \A k \in 1..Len(checks) : checks[k]

OtherGreens == {j \in 1..Len(prePlan) : j # phaseIdx /\ IsGreen(prePlan[j])}

\* C1 as stated: after a step that adjusted the plan, every phase duration
\* of the plan lies within [13, 50].
C1_AllDurationsInRange ==
    (StepDone /\ Len(sent) > 0) =>
        \A i \in 1..Len(simPlan) : InRange(simPlan[i].duration)

\* C1 amended: the adjustments preserve the range: a phase whose duration was
\* within [13, 50] when the step read the plan is within [13, 50] after every
\* adjustment of the step.
C1_RangePreserved ==
    InStep =>
        \A i \in 1..Len(simPlan) :
            InRange(prePlan[i].duration) =>
                InRange(simPlan[i].duration) /\ InRange(current_logic[i].duration)

\* A committed step changed a phase that was within the range, up to the cap.
C1_Witness ==
    /\ StepDone
    /\ Len(sent) > 0
    /\ \E i \in 1..Len(simPlan) :
          /\ InRange(prePlan[i].duration)
          /\ simPlan[i].duration # prePlan[i].duration
          /\ simPlan[i].duration = max_green_duration

\* C2: in a triggered step with a non-empty Congested Set and a green active
\* phase, the active phase's duration grows strictly unless it was at the
\* cap, and every other green phase's duration shrinks strictly unless it was
\* at the floor.
C2_ActiveGrowsOthersShrink ==
    (StepDone /\ ~CongestedSetEmpty /\ AllTriggered /\ IsGreen(prePlan[phaseIdx])) =>
        /\ prePlan[phaseIdx].duration < max_green_duration =>
              simPlan[phaseIdx].duration > prePlan[phaseIdx].duration
        /\ \A j \in OtherGreens :
              prePlan[j].duration > min_green_duration =>
                  simPlan[j].duration < prePlan[j].duration

\* C3: in a step where nextSwitch - time > 1 no program is committed and the
\* simulator's plan stays as it was read.
C3_NoAdjustmentBeforeBoundary ==
    (InStep /\ ~AtBoundary) =>
        /\ sent = <<>>
        /\ simPlan = prePlan
        /\ current_logic = prePlan

\* A congested step away from the phase boundary has completed.
C3_Witness ==
    /\ StepDone
    /\ ~AtBoundary
    /\ ~CongestedSetEmpty
    /\ sent = <<>>

\* C4: in a triggered step whose Congested Set is empty no phase is modified
\* and the simulator's plan is unchanged.
C4_EmptyCongestedSetNoChange ==
    (InStep /\ AtBoundary /\ CongestedSetEmpty) =>
        /\ sent = <<>>
        /\ simPlan = prePlan
        /\ current_logic = prePlan

\* A triggered step completed with an approach exactly at the threshold.
C4_Witness ==
    /\ StepDone
    /\ AtBoundary
    /\ CongestedSetEmpty
    /\ \E a \in Approaches : vehicle_counts[a] = congestion_threshold

\* C5: under sustained congestion the plan a triggered step no longer changes
\* has the active green phase at 50 and every other green phase at 13.
C5_FixedPointShape ==
    (StepDone /\ ~CongestedSetEmpty /\ AllTriggered /\ simPlan = prePlan
        /\ IsGreen(prePlan[phaseIdx])) =>
        /\ simPlan[phaseIdx].duration = max_green_duration
        /\ \A j \in OtherGreens : simPlan[j].duration = min_green_duration

\* C6: with 8 vehicles on one lane of the north approach, north is congested,
\* and after a triggered step an active green phase of 12 has 17 and a
\* competing green phase of 12 has 13.
C6_Scenario ==
    (StepDone /\ laneCount[LaneNorth] = 8) =>
        /\ InList("north", congested_approaches)
        /\ (AllTriggered /\ IsGreen(prePlan[phaseIdx])) =>
              /\ prePlan[phaseIdx].duration = 12 => simPlan[phaseIdx].duration = 17
              /\ \A j \in OtherGreens :
                    prePlan[j].duration = 12 => simPlan[j].duration = 13

\* C7: the duration of a phase whose state string has no 'G' is never
\* changed, whatever its index.
C7_NonGreenUntouched ==
    InStep =>
        \A i \in 1..Len(simPlan) :
            ~IsGreen(prePlan[i]) => simPlan[i].duration = prePlan[i].duration

\* C8: whenever run_simulation has been left, normally or by an error of a
\* simulator call, the connection has been closed exactly once.
C8_ClosedOnEveryExit ==
    pc \in {"done", "raised"} => (conn = "closed" /\ closes = 1)

\* C9: a step that modifies the plan commits exactly one program, and what it
\* commits is the step's final plan.
C9_SingleCommit ==
    (StepDone /\ simPlan # prePlan) =>
        /\ Len(sent) = 1
        /\ \A k \in 1..Len(sent) : sent[k] = Durations(simPlan)

\* The approach a lane is mapped to: the first of sensor_ids whose name the
\* lane id contains, "none" when there is none.
MappedApproach(lane) ==
    LET hits == {i \in 1..Len(sensor_ids) : Contains(Chars(sensor_ids[i]), lane)}
    IN  IF hits = {} THEN "none"
        ELSE sensor_ids[CHOOSE i \in hits : \A j \in hits : i <= j]

\* The instrumented lanes mapped to each approach, and those mapped to any.
LanesOf == [a \in Approaches |-> {l \in InstrumentedLanes : MappedApproach(l) = a}]
MappedLanes == {l \in InstrumentedLanes : MappedApproach(l) # "none"}

RECURSIVE SumCounts(_)
SumCounts(lanes) ==
    IF lanes = {} THEN 0
    ELSE LET l == CHOOSE x \in lanes : TRUE
         IN  laneCount[l] + SumCounts(lanes \ {l})

RECURSIVE SumSnapshot(_)
SumSnapshot(as) ==
    IF as = {} THEN 0
    ELSE LET a == CHOOSE x \in as : TRUE
         IN  vehicle_counts[a] + SumSnapshot(as \ {a})

\* C10: the snapshot has one entry per approach, each >= 0 and equal to the
\* sum of the counts of the instrumented lanes mapped to it; unmapped lanes
\* contribute nowhere and no lane is counted twice.
C10_SnapshotIsSumOfMappedLanes ==
    InStep =>
        /\ DOMAIN vehicle_counts = Approaches
        /\ \A a \in Approaches :
              /\ vehicle_counts[a] >= 0
              /\ vehicle_counts[a] = SumCounts(LanesOf[a])
        /\ SumSnapshot(Approaches) = SumCounts(MappedLanes)

\* A step counted a lane whose id contains two approach names while an
\* unmapped lane was busy too.
C10_Witness ==
    /\ StepDone
    /\ laneCount[LaneNorthwest] > 0
    /\ laneCount[LaneOsm] > 0
    /\ vehicle_counts["north"] > 0

\* C11: an approach is in the Congested Set exactly when its snapshot total
\* is greater than 5: a total of 5 or less is out, a total of 6 or more is in.
C11_CongestedIffAboveThreshold ==
    InStep =>
        \A a \in Approaches :
            /\ vehicle_counts[a] >= 6 => InList(a, congested_approaches)
            /\ vehicle_counts[a] <= 5 => ~InList(a, congested_approaches)

\* Two lanes of 3 vehicles each put the north approach at a total of 6, which
\* is congested, while the other approaches are not.
C11_Witness ==
    /\ StepDone
    /\ vehicle_counts["north"] = 6
    /\ congested_approaches = <<"north">>

\* The loop enters its body only from the loop check, with expected > 0.
StepOnlyWhenExpected ==
    (pc # "step" /\ pc' = "step") => (pc = "check" /\ expected > 0)

\* A loop check that reads zero leaves the loop for traci.close, and nothing
\* steps the simulator after that.
NoStepAfterZero ==
    /\ (pc = "check" /\ expected = 0) => pc' = "close"
    /\ pc \in {"close", "done"} => (pc' \in {"close", "done"} /\ simPlan' = simPlan)

\* C12: the simulator is stepped only after the loop check read an expected
\* vehicle count > 0; once the check reads zero no further step is made and
\* the connection gets closed; when the simulator eventually reports zero and
\* no call fails, the run terminates with the connection closed.
C12_LoopTerminates ==
    /\ [][StepOnlyWhenExpected /\ NoStepAfterZero]_vars
    /\ <>(pc = "done" /\ conn = "closed" /\ expected = 0)

\* A run that stepped and re-timed the signal has terminated.
C12_Witness ==
    /\ pc = "done"
    /\ conn = "closed"
    /\ expected = 0
    /\ simPlan \notin InitialPlans

\* analyze_tripinfo has ended, by returning or by an exception.
TripEnded == pc \in {"returned", "escaped"}

\* The trip log is malformed: unparseable, without any record, or with a
\* record that lacks an attribute or holds one that is no number.
Malformed ==
    \/ tripinfo_file.kind = "unparseable"
    \/ /\ tripinfo_file.kind = "xml"
       /\ \/ Len(tripinfo_file.trips) = 0
          \/ \E i \in 1..Len(tripinfo_file.trips) : tripinfo_file.trips[i] # GoodTrip

\* C13: for every malformed trip log the call reports an error message and
\* returns normally.
C13_MalformedReported ==
    (TripEnded /\ Malformed) =>
        /\ pc = "returned"
        /\ raisedError = "none"
        /\ Len(output) = 1
        /\ output[1] \in {NotFoundMessage, ParseErrorMessage}

\* C14: for a missing trip log the call prints the file-not-found message,
\* prints no statistics and returns normally.
C14_MissingFileReported ==
    (pc \in {"convert", "stats", "returned", "escaped"} /\ tripinfo_file.kind = "missing") =>
        /\ pc = "returned"
        /\ raisedError = "none"
        /\ output = <<NotFoundMessage>>
        /\ data = <<>>

\* The call on a missing file has returned.
C14_Witness ==
    /\ pc = "returned"
    /\ tripinfo_file.kind = "missing"
    /\ output = <<NotFoundMessage>>

\* C15: the position written for a lane is max(laneLength - 5, 0.1), here in
\* hundredths of a metre.
C15_PositionIsMax ==
    detectorCount > 0 =>
        detector.position = Max(detector.length - 500, 10)

\* The positions of the phases with index 0, 2 and 4.
AdjustedPositions == {1, 3, 5}

\* C16: no step of the controller changes the number of phases, the state
\* string of a phase, or the duration of a phase whose index is not 0, 2 or
\* 4, so those phases keep their initial durations for ever.
C16_OnlyPhases024Change ==
    [][ /\ Len(simPlan') = Len(simPlan)
        /\ \A i \in 1..Len(simPlan) :
              /\ simPlan'[i].state = simPlan[i].state
              /\ i \notin AdjustedPositions => simPlan'[i].duration = simPlan[i].duration
      ]_vars

\* A step changed phases 0, 2 and 4 of a six-phase program and left the
\* others as they were.
C16_Witness ==
    /\ StepDone
    /\ Len(simPlan) = 6
    /\ \A i \in AdjustedPositions : simPlan[i].duration # prePlan[i].duration
    /\ \A i \in {2, 4, 6} : simPlan[i] = prePlan[i]

\* C17: in a step with a non-empty Congested Set whose trigger checks all
\* hold, phase 0 and phase 2 do not end longer than they began when they
\* began at 13 or more.
C17_Phases02NeverGrow ==
    (StepDone /\ ~CongestedSetEmpty /\ AllTriggered) =>
        \A i \in {1, 3} \cap (1..Len(simPlan)) :
            prePlan[i].duration >= 13 => simPlan[i].duration <= prePlan[i].duration

\* North and east were congested: phase 0 was grown by the first commit and
\* ended the step no longer than it began.
C17_Witness ==
    /\ StepDone
    /\ AllTriggered
    /\ Len(sent) = 3
    /\ prePlan[1].duration >= 13
    /\ sent[1][1] > prePlan[1].duration
    /\ simPlan[1].duration <= prePlan[1].duration

\* C18: after a step with a non-empty Congested Set whose trigger checks all
\* hold, phase 0 and phase 2 are at 13 or more and phase 4 is at 18 or more.
C18_FloorsAfterCommit ==
    (StepDone /\ ~CongestedSetEmpty /\ AllTriggered) =>
        /\ simPlan[1].duration >= 13
        /\ Len(simPlan) > 2 => simPlan[3].duration >= 13
        /\ Len(simPlan) > 4 => simPlan[5].duration >= 18

\* Phases 2 and 4 began below the floor and phase 4 ended at exactly 18.
C18_Witness ==
    /\ StepDone
    /\ ~CongestedSetEmpty
    /\ AllTriggered
    /\ Len(simPlan) > 4
    /\ prePlan[3].duration < 13
    /\ prePlan[5].duration < 13
    /\ simPlan[3].duration = 13
    /\ simPlan[5].duration = 18

====
